---- MODULE Spec2Model ----
(***************************************************************************)
(* A model of frame_geotag_dji.py: geotagging of frames extracted from a   *)
(* DJI video with the positions recorded in the video's .SRT subtitles.    *)
(*                                                                         *)
(* Numbers.  A Python float is modelled as an exact decimal with eight     *)
(* fractional digits: a sign, a whole part and a fraction in units of      *)
(* 10^-8.  The binary rounding error of IEEE doubles is not modelled.      *)
(* Frame rates are kept in hundredths of a frame per second, subtitle      *)
(* times in whole milliseconds (pysrt's ordinal), and a frame's time in    *)
(* milliseconds as an exact fraction.                                      *)
(***************************************************************************)
EXTENDS Integers, Sequences, FiniteSets, TLC

VARIABLES
  pc,                    \* position of the script, or of the function under call
  call,                  \* arguments of the function under call
  ret,                   \* its return value
  video_fps_input,       \* line 164: what the operator typed
  extraction_fps_input,  \* line 175
  video_fps,             \* line 167/170/172
  extraction_fps,        \* line 178/181/183
  matched_groups,        \* line 142: per video, its images' frame numbers
  gi,                    \* index of the video group being processed (line 192)
  ii,                    \* index of the image being processed (line 207)
  subs,                  \* line 199: the subtitles of the current group
  total_success,         \* line 189
  total_images,          \* line 190
  group_success,         \* line 206
  report,                \* the summary lines printed at lines 244 and 247
  outcome,               \* per image: what happened to it
  disk                   \* per image: the EXIF block stored in the file

vars ==
  << pc, call, ret, video_fps_input, extraction_fps_input, video_fps,
     extraction_fps, matched_groups, gi, ii, subs, total_success,
     total_images, group_success, report, outcome, disk >>

runVars ==
  << video_fps_input, extraction_fps_input, video_fps, extraction_fps,
     matched_groups, gi, ii, subs, total_success, total_images,
     group_success, report, outcome, disk >>

-----------------------------------------------------------------------------
(* Bounds of the model.                                                    *)

MaxFracs == 3
MaxAlts == 3
MaxRecords == 3
MaxFrame == 6
MaxSubs == 2
MaxGroups == 2

-----------------------------------------------------------------------------
(* Arithmetic.                                                             *)

Abs(x) == IF x < 0 THEN -x ELSE x

Min(S) == CHOOSE x \in S : \A y \in S : x <= y

\* The number of units of a float's fraction in 1.
FD == 10^8

\* The float (-1)^neg * (w + f / 10^8).
Float(neg, w, f) == [neg |-> neg, w |-> w, f |-> f]

Zero == Float(FALSE, 0, 0)

Negative(x) == x.neg /\ (x.w > 0 \/ x.f > 0)

Positive(x) == ~x.neg /\ (x.w > 0 \/ x.f > 0)

\* Python's round() of the quotient n / d, n >= 0, d > 0: half to even.
RoundHalfEven(n, d) ==
  LET q == n \div d
      r == n % d
  IN  IF 2 * r < d THEN q
      ELSE IF 2 * r > d THEN q + 1
      ELSE IF q % 2 = 0 THEN q ELSE q + 1

\* (f / 10^8) * 60 as whole part and fraction, in steps that fit 32 bits.
Times60(f) ==
  LET c == (f % 10^4) * 60
      hi == (f \div 10^4) * 60 + c \div 10^4
  IN  [w |-> hi \div 10^4, f |-> (hi % 10^4) * 10^4 + (c % 10^4)]

\* int(x * scale) for a scale that divides 10^8: truncation toward zero.
IntScaled(x, scale) ==
  LET m == x.w * scale + x.f \div (FD \div scale)
  IN  IF x.neg THEN -m ELSE m

\* round(x, 5) for x = w + f / 10^8.
Round5(w, f) ==
  LET r == RoundHalfEven(f, 1000)
  IN  IF r = 10^5 THEN Float(FALSE, w + 1, 0) ELSE Float(FALSE, w, r * 1000)

\* Python's None, and a present value.
None == [some |-> FALSE]

Some(v) == [some |-> TRUE, val |-> v]

-----------------------------------------------------------------------------
(* to_deg, lines 14-27.                                                    *)

\* A slip: the seconds without their factor of 60.
to_deg_without_factor(value, loc) ==
  LET t1 == Times60(value.f)
  IN  [deg |-> value.w, min |-> t1.w, sec |-> Round5(0, t1.f),
       loc_value |-> IF Negative(value) THEN loc[2]
                     ELSE IF Positive(value) THEN loc[1]
                     ELSE ""]

to_deg(value, loc) ==
  LET loc_value == IF Negative(value) THEN loc[2]
                   ELSE IF Positive(value) THEN loc[1]
                   ELSE ""
      deg == value.w                 \* int(abs_value)
      t1 == Times60(value.f)         \* (abs_value - deg) * 60
      min == t1.w                    \* int(t1)
      rest == Times60(t1.f)          \* (t1 - min) * 60
      sec == Round5(rest.w, rest.f)
  IN  [deg |-> deg, min |-> min, sec |-> sec, loc_value |-> loc_value]

\* The GPS IFD built by set_gps_location, lines 56-71.  A rational is a
\* pair <<numerator, denominator>>.
gps_ifd(lat, lon, abs_alt) ==
  LET lat_deg == to_deg(lat, <<"N", "S">>)
      lon_deg == to_deg(lon, <<"E", "W">>)
      abs_alt_rational == <<IntScaled(abs_alt, 100), 100>>
  IN  [GPSLatitudeRef |-> lat_deg.loc_value,
       GPSLatitude |-> << <<lat_deg.deg, 1>>, <<lat_deg.min, 1>>,
                          <<IntScaled(lat_deg.sec, 100000), 100000>> >>,
       GPSLongitudeRef |-> lon_deg.loc_value,
       GPSLongitude |-> << <<lon_deg.deg, 1>>, <<lon_deg.min, 1>>,
                           <<IntScaled(lon_deg.sec, 100000), 100000>> >>,
       GPSAltitudeRef |-> 0,
       GPSAltitude |-> abs_alt_rational]

-----------------------------------------------------------------------------
(* parse_dji_gps_data, lines 29-51.  A text is a sequence of characters.   *)

Digits == {"0", "1", "2", "3", "4", "5", "6", "7", "8", "9"}

\* The regular expressions' class [-\d.] and \s.
NumChars == Digits \cup {"-", "."}

Space == {" "}

LitLatitude ==
  <<"[", "l", "a", "t", "i", "t", "u", "d", "e", ":">>

LitLongitude ==
  <<"[", "l", "o", "n", "g", "i", "t", "u", "d", "e", ":">>

LitRelAlt ==
  <<"[", "r", "e", "l", "_", "a", "l", "t", ":">>

LitAbsAlt ==
  <<"a", "b", "s", "_", "a", "l", "t", ":">>

DigitVal(c) ==
  CASE c = "0" -> 0 [] c = "1" -> 1 [] c = "2" -> 2 [] c = "3" -> 3
    [] c = "4" -> 4 [] c = "5" -> 5 [] c = "6" -> 6 [] c = "7" -> 7
    [] c = "8" -> 8 [] c = "9" -> 9

RECURSIVE DigitsValue(_)
DigitsValue(s) ==
  IF s = <<>> THEN 0
  ELSE DigitsValue(SubSeq(s, 1, Len(s) - 1)) * 10 + DigitVal(s[Len(s)])

\* float(s) for s a non-empty string over [-\d.]: None stands for ValueError.
\* Fractional digits past the eighth are dropped by the representation.
float(s) ==
  LET neg == s[1] = "-"
      body == IF neg THEN Tail(s) ELSE s
      dots == {i \in DOMAIN body : body[i] = "."}
      valid == /\ \A i \in DOMAIN body : body[i] # "-"
               /\ Cardinality(dots) <= 1
               /\ \E i \in DOMAIN body : body[i] \in Digits
      dot == IF dots = {} THEN Len(body) + 1 ELSE Min(dots)
      ip == SubSeq(body, 1, dot - 1)
      fr == SubSeq(body, dot + 1, IF Len(body) < dot + 8 THEN Len(body) ELSE dot + 8)
  IN  IF valid
      THEN Some(Float(neg, DigitsValue(ip), DigitsValue(fr) * 10^(8 - Len(fr))))
      ELSE None

IsPrefixAt(text, p, lit) ==
  /\ p + Len(lit) - 1 <= Len(text)
  /\ \A k \in 1..Len(lit) : text[p + k - 1] = lit[k]

RECURSIVE SkipWhile(_, _, _)
SkipWhile(text, p, class) ==
  IF p <= Len(text) /\ text[p] \in class THEN SkipWhile(text, p + 1, class) ELSE p

\* The pattern  lit \s* ([-\d.]+)  followed by \] when closed, tried at p:
\* the captured group, or None.
MatchAt(text, p, lit, closed) ==
  IF ~IsPrefixAt(text, p, lit) THEN None
  ELSE LET a == SkipWhile(text, p + Len(lit), Space)
           b == SkipWhile(text, a, NumChars)
       IN  IF b = a THEN None
           ELSE IF closed /\ ~(b <= Len(text) /\ text[b] = "]") THEN None
           ELSE Some(SubSeq(text, a, b - 1))

\* re.search: the leftmost match, tried from position p on.
RECURSIVE re_search_from(_, _, _, _)
re_search_from(text, p, lit, closed) ==
  IF p > Len(text) THEN None
  ELSE IF IsPrefixAt(text, p, lit) /\ MatchAt(text, p, lit, closed).some
  THEN MatchAt(text, p, lit, closed)
  ELSE re_search_from(text, p + 1, lit, closed)

re_search(text, lit, closed) == re_search_from(text, 1, lit, closed)

\* A slip: a value that does not parse is replaced by 0.0, not refused.
parse_dji_gps_data_defaulting(srt_text) ==
  LET lat_match == re_search(srt_text, LitLatitude, TRUE)
      lon_match == re_search(srt_text, LitLongitude, TRUE)
      rel_alt_match == re_search(srt_text, LitRelAlt, FALSE)
      abs_alt_match == re_search(srt_text, LitAbsAlt, TRUE)
      num(m) == IF float(m.val).some THEN float(m.val).val ELSE Zero
  IN  IF lat_match.some /\ lon_match.some /\ abs_alt_match.some
      THEN Some([lat |-> num(lat_match), lon |-> num(lon_match),
                 abs_alt |-> num(abs_alt_match),
                 rel_alt |-> IF rel_alt_match.some THEN Some(num(rel_alt_match))
                             ELSE None])
      ELSE None

parse_dji_gps_data(srt_text) ==
  LET lat_match == re_search(srt_text, LitLatitude, TRUE)
      lon_match == re_search(srt_text, LitLongitude, TRUE)
      rel_alt_match == re_search(srt_text, LitRelAlt, FALSE)
      abs_alt_match == re_search(srt_text, LitAbsAlt, TRUE)
  IN  IF lat_match.some /\ lon_match.some /\ abs_alt_match.some
      THEN LET lat == float(lat_match.val)
               lon == float(lon_match.val)
               abs_alt == float(abs_alt_match.val)
               rel_alt == IF rel_alt_match.some THEN float(rel_alt_match.val)
                          ELSE None
           IN  IF /\ lat.some /\ lon.some /\ abs_alt.some
                  /\ (rel_alt_match.some => rel_alt.some)
               THEN Some([lat |-> lat.val, lon |-> lon.val,
                          abs_alt |-> abs_alt.val, rel_alt |-> rel_alt])
               ELSE None
      ELSE None

-----------------------------------------------------------------------------
(* The frame's time and the subtitle that holds it, lines 212-222.         *)

\* A slip: the frame's time taken from the video's rate.
frame_timedelta_ms_of_video(frame_number, video_rate, extraction_rate) ==
  [num |-> (frame_number - 1) * 1000 * 100 * (IF video_rate < 0 THEN -1 ELSE 1),
   den |-> Abs(video_rate)]

\* (frame_number - 1) / extraction_fps * 1000 as the fraction num / den with
\* den > 0; the rates are in hundredths, extraction_rate # 0.
frame_timedelta_ms(frame_number, video_rate, extraction_rate) ==
  [num |-> (frame_number - 1) * 1000 * 100 * (IF extraction_rate < 0 THEN -1 ELSE 1),
   den |-> Abs(extraction_rate)]

\* A slip: the end of the subtitle excluded.
contains_before_end(sub, t) ==
  sub.start * t.den <= t.num /\ t.num < sub.end * t.den

\* sub_start_ms <= frame_timedelta_ms <= sub_end_ms, line 222.
contains(sub, t) ==
  sub.start * t.den <= t.num /\ t.num <= sub.end * t.den

\* The loop of line 217, which ends at the first subtitle that passes line
\* 222 (the breaks of lines 236 and 239): its index, 0 when none does.
RECURSIVE find_sub_from(_, _, _)
find_sub_from(track, t, i) ==
  IF i > Len(track) THEN 0
  ELSE IF contains(track[i], t) THEN i
  ELSE find_sub_from(track, t, i + 1)

find_sub(track, t) == find_sub_from(track, t, 1)

-----------------------------------------------------------------------------
(* set_gps_location, lines 53-80.  An EXIF block, as piexif.load gives it, *)
(* maps each IFD name to the IFD.  fault is the step of piexif that        *)
(* raises, if any; piexif.insert writes the file only when it succeeds.    *)

Ifds == {"0th", "Exif", "GPS", "Interop", "1st", "thumbnail"}

Faults == {"none", "load", "dump", "insert"}

\* A slip: the block written holds the GPS IFD alone.
set_gps_location_alone(exif_dict, lat, lon, abs_alt, fault) ==
  IF fault # "none" THEN [ok |-> FALSE, exif |-> exif_dict]
  ELSE [ok |-> TRUE,
        exif |-> [g \in Ifds |-> IF g = "GPS" THEN gps_ifd(lat, lon, abs_alt)
                                 ELSE [ifd |-> "empty"]]]

set_gps_location(exif_dict, lat, lon, abs_alt, fault) ==
  IF fault # "none" THEN [ok |-> FALSE, exif |-> exif_dict]
  ELSE [ok |-> TRUE,
        exif |-> [exif_dict EXCEPT !["GPS"] = gps_ifd(lat, lon, abs_alt)]]

-----------------------------------------------------------------------------
(* Inputs of the checks of the pure functions.                             *)

\* Pieces of telemetry text, each with what it holds: the numeric values of
\* its well-formed latitude, longitude and abs_alt tokens, and whether it
\* holds a rel_alt token.
Records ==
  << [text |-> <<"[", "l", "a", "t", "i", "t", "u", "d", "e", ":", " ", "4", "0", ".", "1", "2", "3", "]">>,
      lat |-> {Float(FALSE, 40, 12300000)}, lon |-> {}, abs_alt |-> {}, rel_alt |-> FALSE],
     [text |-> <<"[", "l", "a", "t", "i", "t", "u", "d", "e", ":", " ", "-", "3", "3", ".", "5", "]">>,
      lat |-> {Float(TRUE, 33, 50000000)}, lon |-> {}, abs_alt |-> {}, rel_alt |-> FALSE],
     [text |-> <<"[", "l", "a", "t", "i", "t", "u", "d", "e", ":", " ", "1", ".", "2", ".", "3", "]">>,
      lat |-> {}, lon |-> {}, abs_alt |-> {}, rel_alt |-> FALSE],
     [text |-> <<"[", "l", "a", "t", "i", "t", "u", "d", "e", ":", " ", "-", "]">>,
      lat |-> {}, lon |-> {}, abs_alt |-> {}, rel_alt |-> FALSE],
     [text |-> <<"[", "l", "a", "t", "i", "t", "u", "d", "e", ":", " ", "4", "0", ".", "1", "2", "3">>,
      lat |-> {}, lon |-> {}, abs_alt |-> {}, rel_alt |-> FALSE],
     [text |-> <<"[", "l", "a", "t", "i", "t", "u", "d", "e", ":", " ", "a", "b", "c", "]">>,
      lat |-> {}, lon |-> {}, abs_alt |-> {}, rel_alt |-> FALSE],
     [text |-> <<"[", "l", "o", "n", "g", "i", "t", "u", "d", "e", ":", " ", "-", "7", "4", ".", "4", "5", "6", "]">>,
      lat |-> {}, lon |-> {Float(TRUE, 74, 45600000)}, abs_alt |-> {}, rel_alt |-> FALSE],
     [text |-> <<"[", "l", "o", "n", "g", "i", "t", "u", "d", "e", ":", " ", "-", "-", "7", "]">>,
      lat |-> {}, lon |-> {}, abs_alt |-> {}, rel_alt |-> FALSE],
     [text |-> <<"[", "r", "e", "l", "_", "a", "l", "t", ":", " ", "1", "0", ".", "0", " ", "a", "b", "s", "_", "a", "l", "t", ":", " ", "5", "0", ".", "2", "5", "9", "]">>,
      lat |-> {}, lon |-> {}, abs_alt |-> {Float(FALSE, 50, 25900000)}, rel_alt |-> TRUE],
     [text |-> <<"[", "a", "b", "s", "_", "a", "l", "t", ":", " ", "5", "0", ".", "2", "5", "]">>,
      lat |-> {}, lon |-> {}, abs_alt |-> {Float(FALSE, 50, 25000000)}, rel_alt |-> FALSE],
     [text |-> <<"[", "r", "e", "l", "_", "a", "l", "t", ":", " ", "1", ".", "0", ".", "0", " ", "a", "b", "s", "_", "a", "l", "t", ":", " ", "5", "0", ".", "2", "5", "]">>,
      lat |-> {}, lon |-> {}, abs_alt |-> {Float(FALSE, 50, 25000000)}, rel_alt |-> TRUE],
     [text |-> <<"[", "r", "e", "l", "_", "a", "l", "t", ":", " ", "1", "0", ".", "0", " ", "a", "b", "s", "_", "a", "l", "t", ":", " ", "5", ".", ".", "2", "]">>,
      lat |-> {}, lon |-> {}, abs_alt |-> {}, rel_alt |-> TRUE],
     [text |-> <<"[", "i", "s", "o", ":", " ", "1", "0", "0", "]", " ">>,
      lat |-> {}, lon |-> {}, abs_alt |-> {}, rel_alt |-> FALSE] >>

RECURSIVE Concat(_)
Concat(ks) ==
  IF ks = <<>> THEN <<>> ELSE Records[Head(ks)].text \o Concat(Tail(ks))

RecordSeqs == UNION {[1..n -> DOMAIN Records] : n \in 0..MaxRecords}

Fracs == {(k * 76543219) % FD : k \in 1..MaxFracs}

Angles ==
  {Zero} \cup {Float(n, d, f) : n \in BOOLEAN, d \in {0, 40, 89}, f \in Fracs}

Altitudes == {Float(FALSE, 5 * k, (k * 25900000) % FD) : k \in 0..MaxAlts}

Unasked == [kind |-> "unasked", val |-> 0]

Idle ==
  /\ video_fps_input = Unasked /\ extraction_fps_input = Unasked
  /\ video_fps = 0 /\ extraction_fps = 0
  /\ matched_groups = <<>> /\ gi = 0 /\ ii = 0 /\ subs = <<>>
  /\ total_success = 0 /\ total_images = 0 /\ group_success = 0
  /\ report = <<>>
  /\ outcome = <<>> /\ disk = <<>>

-----------------------------------------------------------------------------
(* geotag_dji_frames, lines 109-247, from the matched groups of line 156   *)
(* on.                                                                     *)

\* The defaults of lines 172 and 183, in hundredths.
DefaultVideoFps == 2997

DefaultExtractionFps == 500

\* What the operator typed: nothing, a text float() refuses, or a number.
NoInput == [kind |-> "empty", val |-> 0]

TextInput == [kind |-> "text", val |-> 0]

Number(v) == [kind |-> "number", val |-> v]

\* A slip: an input float() refuses leaves the rate 0.
rate_or_zero(input, default) ==
  IF input.kind = "number" THEN input.val
  ELSE IF input.kind = "text" THEN 0
  ELSE default

\* Lines 165-172 and 176-183: float(input), the default for an empty input
\* and for one float() refuses.
rate_or_default(input, default) ==
  IF input.kind = "number" THEN input.val ELSE default

\* The EXIF block every image has when the run starts.
CameraBlock == [g \in Ifds |-> IF g = "GPS" THEN [ifd |-> "empty"]
                               ELSE [ifd |-> "stored"]]

\* [latitude: 40.123][longitude: -74.456][rel_alt: 10.0 abs_alt: 50.259]
GoodText == Concat(<<1, 7, 9>>)

\* [latitude: 40.123][rel_alt: 10.0 abs_alt: 50.259]
NoLongitudeText == Concat(<<1, 9>>)

\* The subtitles pysrt.open may give: none, or the subtitle of the first
\* second, alone or followed by the next one, with a text that parses or not.
First(x) == [start |-> 0, end |-> 999, text |-> x]

Second(x) == [start |-> 1000, end |-> 1200, text |-> x]

RunTracks ==
  { <<>>,
    <<First(GoodText)>>,
    <<First(GoodText), Second(GoodText)>>,
    <<First(GoodText), Second(NoLongitudeText)>>,
    <<First(NoLongitudeText), Second(GoodText)>> }

\* The frame numbers of the images: at 5 fps, 0 ms and 1000 ms.
RunFrames == {1, 6}

\* The images of one group, sorted by frame number (line 147).
RECURSIVE SortedSeq(_)
SortedSeq(S) ==
  IF S = {} THEN <<>> ELSE <<Min(S)>> \o SortedSeq(S \ {Min(S)})

Groups == {[images |-> SortedSeq(S)] : S \in (SUBSET RunFrames) \ {{}}}

Init ==
  /\ pc = "config"
  /\ call = None /\ ret = None
  /\ video_fps_input = Unasked /\ extraction_fps_input = Unasked
  /\ video_fps = 0 /\ extraction_fps = 0
  /\ matched_groups \in UNION {[1..n -> Groups] : n \in 1..MaxGroups}
  /\ gi = 0 /\ ii = 0 /\ subs = <<>>
  /\ total_success = 0 /\ total_images = 0 /\ group_success = 0
  /\ report = <<>>
  /\ outcome = [g \in DOMAIN matched_groups |->
                  [i \in DOMAIN matched_groups[g].images |-> "pending"]]
  /\ disk = [g \in DOMAIN matched_groups |->
               [i \in DOMAIN matched_groups[g].images |-> CameraBlock]]

\* Lines 160-190.  Line 186 divides by extraction_fps: ZeroDivisionError,
\* which nothing catches, when it is 0.
ReadConfig ==
  /\ pc = "config"
  /\ \E vin \in {NoInput, TextInput, Number(0)} :
       \E ein \in {NoInput, TextInput, Number(100), Number(0), Number(-500)} :
         /\ video_fps_input' = vin
         /\ extraction_fps_input' = ein
         /\ video_fps' = rate_or_default(vin, DefaultVideoFps)
         /\ extraction_fps' = rate_or_default(ein, DefaultExtractionFps)
  /\ IF extraction_fps' = 0
     THEN pc' = "crashed" /\ gi' = gi
     ELSE pc' = "group" /\ gi' = 1
  /\ total_success' = 0
  /\ total_images' = 0
  /\ UNCHANGED << call, ret, matched_groups, ii, subs, group_success, report,
                  outcome, disk >>

\* Lines 192-200 and 206: pysrt.open gives the subtitles of the group.
OpenSrt ==
  /\ pc = "group"
  /\ gi <= Len(matched_groups)
  /\ \E track \in RunTracks : subs' = track
  /\ group_success' = 0
  /\ ii' = 1
  /\ pc' = "image"
  /\ UNCHANGED << call, ret, video_fps_input, extraction_fps_input, video_fps,
                  extraction_fps, matched_groups, gi, total_success,
                  total_images, report, outcome, disk >>

\* Lines 201-203: pysrt.open raises, and the loop goes on to the next group.
OpenSrtFails ==
  /\ pc = "group"
  /\ gi <= Len(matched_groups)
  /\ gi' = gi + 1
  /\ UNCHANGED << pc, call, ret, video_fps_input, extraction_fps_input,
                  video_fps, extraction_fps, matched_groups, ii, subs,
                  total_success, total_images, group_success, report, outcome,
                  disk >>

\* Lines 207-242: one image of the group.
TagImage ==
  /\ pc = "image"
  /\ ii <= Len(matched_groups[gi].images)
  /\ LET frame_number == matched_groups[gi].images[ii]
         t == frame_timedelta_ms(frame_number, video_fps, extraction_fps)
         k == find_sub(subs, t)
     IN  IF k = 0
         THEN /\ outcome' = [outcome EXCEPT ![gi][ii] = "no_match"]
              /\ UNCHANGED << disk, group_success, total_success >>
         ELSE \E gps_result \in {parse_dji_gps_data(subs[k].text)} :
           IF ~gps_result.some
           THEN /\ outcome' = [outcome EXCEPT ![gi][ii] = "parse_failed"]
                /\ UNCHANGED << disk, group_success, total_success >>
           ELSE \E fault \in Faults :
             \E written \in {set_gps_location(disk[gi][ii],
                               gps_result.val.lat, gps_result.val.lon,
                               gps_result.val.abs_alt, fault)} :
               IF written.ok
               THEN /\ outcome' = [outcome EXCEPT ![gi][ii] = "tagged"]
                    /\ disk' = [disk EXCEPT ![gi][ii] = written.exif]
                    /\ group_success' = group_success + 1
                    /\ total_success' = total_success + 1
               ELSE /\ outcome' = [outcome EXCEPT ![gi][ii] = "write_failed"]
                    /\ disk' = [disk EXCEPT ![gi][ii] = written.exif]
                    /\ UNCHANGED << group_success, total_success >>
  /\ total_images' = total_images + 1
  /\ ii' = ii + 1
  /\ UNCHANGED << pc, call, ret, video_fps_input, extraction_fps_input,
                  video_fps, extraction_fps, matched_groups, gi, subs, report >>

\* Line 244, after the last image of the group.
GroupSummary ==
  /\ pc = "image"
  /\ ii > Len(matched_groups[gi].images)
  /\ report' = Append(report, [group |-> gi, success |-> group_success,
                               total |-> Len(matched_groups[gi].images)])
  /\ gi' = gi + 1
  /\ pc' = "group"
  /\ UNCHANGED << call, ret, video_fps_input, extraction_fps_input, video_fps,
                  extraction_fps, matched_groups, ii, subs, total_success,
                  total_images, group_success, outcome, disk >>

\* Lines 246-247, after the last group; group 0 is the whole run.
Finish ==
  /\ pc = "group"
  /\ gi > Len(matched_groups)
  /\ report' = Append(report, [group |-> 0, success |-> total_success,
                               total |-> total_images])
  /\ pc' = "done"
  /\ UNCHANGED << call, ret, video_fps_input, extraction_fps_input, video_fps,
                  extraction_fps, matched_groups, gi, ii, subs, total_success,
                  total_images, group_success, outcome, disk >>

Next ==
  \/ ReadConfig
  \/ OpenSrt
  \/ OpenSrtFails
  \/ TagImage
  \/ GroupSummary
  \/ Finish

Spec == Init /\ [][Next]_vars

-----------------------------------------------------------------------------
(* The telemetry parser on its own.                                        *)

InitParse ==
  /\ pc = "call"
  /\ call \in {[records |-> ks, srt_text |-> Concat(ks)] : ks \in RecordSeqs}
  /\ ret = None
  /\ Idle

CallParse ==
  /\ pc = "call"
  /\ ret' = parse_dji_gps_data(call.srt_text)
  /\ pc' = "return"
  /\ UNCHANGED call
  /\ UNCHANGED runVars

SpecParse == InitParse /\ [][CallParse]_vars

-----------------------------------------------------------------------------
(* The coordinate encoder on its own.                                      *)

InitEncode ==
  /\ pc = "call"
  /\ call \in [lat : Angles, abs_alt : Altitudes,
               lon : {Zero, Float(TRUE, 74, 45600000), Float(FALSE, 120, 50000000)}]
  /\ ret = None
  /\ Idle

CallEncode ==
  /\ pc = "call"
  /\ ret' = [lat_deg |-> to_deg(call.lat, <<"N", "S">>),
             lon_deg |-> to_deg(call.lon, <<"E", "W">>),
             gps_ifd |-> gps_ifd(call.lat, call.lon, call.abs_alt)]
  /\ pc' = "return"
  /\ UNCHANGED call
  /\ UNCHANGED runVars

SpecEncode == InitEncode /\ [][CallEncode]_vars

-----------------------------------------------------------------------------
(* The temporal aligner on its own.                                        *)

Times == {0, 400, 1000, 1200}

Intervals == {[start |-> a, end |-> b, text |-> <<>>] : a \in Times, b \in Times}

Tracks ==
  UNION {[1..n -> {s \in Intervals : s.start <= s.end}] : n \in 0..MaxSubs}

InitAlign ==
  /\ pc = "call"
  /\ call \in [frame_number : 1..MaxFrame, video_fps : {2997, 500},
               extraction_fps : {500, 250, -500}, subs : Tracks]
  /\ ret = None
  /\ Idle

CallAlign ==
  /\ pc = "call"
  /\ LET t == frame_timedelta_ms(call.frame_number, call.video_fps,
                                 call.extraction_fps)
     IN  ret' = [frame_timedelta_ms |-> t, sub |-> find_sub(call.subs, t)]
  /\ pc' = "return"
  /\ UNCHANGED call
  /\ UNCHANGED runVars

SpecAlign == InitAlign /\ [][CallAlign]_vars

-----------------------------------------------------------------------------
(* The metadata writer on its own: one image, disk[1][1].                  *)

EmptyIfd == [ifd |-> "empty"]

StoredIfd == [ifd |-> "stored"]

InitWrite ==
  /\ pc = "call"
  /\ call \in [exif : [Ifds -> {EmptyIfd, StoredIfd}], fault : Faults,
               lat : {Zero, Float(FALSE, 40, 12300000)},
               lon : {Float(TRUE, 74, 45600000)},
               abs_alt : {Float(FALSE, 50, 25900000)}]
  /\ ret = None
  /\ video_fps_input = Unasked /\ extraction_fps_input = Unasked
  /\ video_fps = 0 /\ extraction_fps = 0
  /\ matched_groups = <<>> /\ gi = 0 /\ ii = 0 /\ subs = <<>>
  /\ total_success = 0 /\ total_images = 0 /\ group_success = 0
  /\ report = <<>> /\ outcome = <<>>
  /\ disk = << <<call.exif>> >>

CallWrite ==
  /\ pc = "call"
  /\ LET r == set_gps_location(disk[1][1], call.lat, call.lon, call.abs_alt,
                               call.fault)
     IN  /\ disk' = << <<r.exif>> >>
         /\ ret' = [ok |-> r.ok]
  /\ pc' = "return"
  /\ UNCHANGED << call, video_fps_input, extraction_fps_input, video_fps,
                  extraction_fps, matched_groups, gi, ii, subs, total_success,
                  total_images, group_success, report, outcome >>

SpecWrite == InitWrite /\ [][CallWrite]_vars

-----------------------------------------------------------------------------
(* Claims about the telemetry parser (SpecParse).                          *)

\* The numeric values the well-formed tokens of one key have in the text
\* made of the records ks.
NumericValues(ks, key) == UNION {Records[ks[i]][key] : i \in DOMAIN ks}

HasRelAltToken(ks) == \E i \in DOMAIN ks : Records[ks[i]].rel_alt

\* C3: parse_dji_gps_data returns None or a sample whose latitude, longitude
\* and absolute altitude are all values of numeric tokens of the text; when
\* one of the three has no numeric token the result is None; a sample of a
\* text without rel_alt token has no relative altitude.
C3_ParseAllOrNothing ==
  pc = "return" =>
    LET ks == call.records
    IN  /\ ret.some =>
             /\ ret.val.lat \in NumericValues(ks, "lat")
             /\ ret.val.lon \in NumericValues(ks, "lon")
             /\ ret.val.abs_alt \in NumericValues(ks, "abs_alt")
             /\ (~HasRelAltToken(ks) => ret.val.rel_alt = None)
        /\ (\E key \in {"lat", "lon", "abs_alt"} : NumericValues(ks, key) = {})
             => ret = None

\* A text with the three required tokens whose latitude is 1.2.3 is refused.
C3_Witness ==
  /\ pc = "return"
  /\ call.records = <<3, 7, 10>>
  /\ ret = None

-----------------------------------------------------------------------------
(* Claims about the coordinate encoder (SpecEncode).                       *)

\* Whether <<num, den>> is value (a float) as a fixed-point rational of the
\* given scale: den = scale, num = round(value * scale), and num / den
\* within 0.5 / scale of value.  more is what |num| has past the whole part.
IsRational(rational, value, scale) ==
  LET unit == FD \div scale
      mag == Abs(rational[1])
      more == mag - value.w * scale
  IN  /\ rational[2] = scale
      /\ mag = value.w * scale + RoundHalfEven(value.f, unit)
      /\ rational[1] < 0 => value.neg
      /\ 2 * Abs(more * unit - value.f) <= unit

\* C4: the rationals of the tag are round(value * scale) / scale, for the
\* seconds (scale 100000) and for the altitude (scale 100).
C4_RationalIsRounded ==
  pc = "return" =>
    /\ IsRational(ret.gps_ifd.GPSLatitude[3], ret.lat_deg.sec, 100000)
    /\ IsRational(ret.gps_ifd.GPSLongitude[3], ret.lon_deg.sec, 100000)
    /\ IsRational(ret.gps_ifd.GPSAltitude, call.abs_alt, 100)

\* What C5 says of dms = to_deg(value, loc), for value = +-(w + f / 10^8).
\* f * 60 / 10^8 minutes are f * 3 / 5000000; past the whole minutes there
\* are more / 5000000 minutes, which are more * 12 / 10 seconds in units of
\* 10^-5.  With deg and min as stated, deg + min / 60 + sec / 3600 - |value|
\* is the seconds' error / 3600, so that the three reproduce |value| within
\* 10^-5 degrees when the seconds are within 0.036.
DmsOf(value, loc, dms) ==
  LET more == value.f * 3 - dms.min * 5000000
      sec5 == dms.sec.w * 10^5 + dms.sec.f \div 1000
  IN  /\ dms.loc_value = IF Positive(value) THEN loc[1] ELSE loc[2]
      /\ dms.deg = value.w
      /\ dms.min * 5000000 <= value.f * 3
      /\ value.f * 3 < (dms.min + 1) * 5000000
      /\ ~dms.sec.neg /\ dms.sec.f % 1000 = 0
      /\ Abs(10 * sec5 - 12 * more) <= 5
      /\ Abs(10 * sec5 - 12 * more) <= 36000

InLatRange(value) == value.w < 90 /\ (value.w > 0 \/ value.f > 0)

\* C5: for a value in (-90, 90) other than 0, to_deg gives the hemisphere of
\* the sign, degrees = floor(|value|), minutes = floor of the rest * 60,
\* seconds the remainder rounded to 5 decimals, and the three reproduce
\* |value| within 10^-5.
C5_DmsDecomposition ==
  pc = "return" =>
    /\ InLatRange(call.lat) => DmsOf(call.lat, <<"N", "S">>, ret.lat_deg)
    /\ InLatRange(call.lon) => DmsOf(call.lon, <<"E", "W">>, ret.lon_deg)

\* A southern latitude, -40.76543219, whose seconds are rounded:
\* 45 minutes and 55.555884 seconds give 55.55588.
C5_Witness ==
  /\ pc = "return"
  /\ call.lat = Float(TRUE, 40, 76543219)
  /\ ret.lat_deg.loc_value = "S"
  /\ ret.lat_deg.deg = 40 /\ ret.lat_deg.min = 45
  /\ ret.lat_deg.sec = Float(FALSE, 55, 55588000)

\* C9: for every value, 0 included, degrees, minutes and seconds are not
\* negative and the hemisphere is a member of the pair.
C9_HemisphereAlwaysSet ==
  pc = "return" =>
    /\ ret.lat_deg.loc_value \in {"N", "S"}
    /\ ret.lon_deg.loc_value \in {"E", "W"}
    /\ ret.gps_ifd.GPSLatitudeRef \in {"N", "S"}
    /\ ret.gps_ifd.GPSLongitudeRef \in {"E", "W"}
    /\ \A d \in {ret.lat_deg, ret.lon_deg} :
         d.deg >= 0 /\ d.min >= 0 /\ ~Negative(d.sec)

-----------------------------------------------------------------------------
(* Claims about the temporal aligner (SpecAlign).                          *)

\* start <= t <= end for the time t = n / d milliseconds, d > 0.
Within(sub, n, d) == sub.start * d <= n /\ n <= sub.end * d

Before(sub, n, d) == n < sub.start * d

After(sub, n, d) == n > sub.end * d

OrderedByStart(track) ==
  \A i \in DOMAIN track : \A j \in DOMAIN track :
    i < j => track[i].start <= track[j].start

\* C1 as stated, on the tracks the data model describes (start <= end,
\* ascending by start): the subtitle selected is the first in scan order that
\* holds t, bounds included, and none is selected when t is before the first
\* subtitle's start or after the last subtitle's end.
C1_NoneOutsideFirstAndLast ==
  (pc = "return" /\ OrderedByStart(call.subs)) =>
    LET n == ret.frame_timedelta_ms.num
        d == ret.frame_timedelta_ms.den
        track == call.subs
    IN  /\ ret.sub # 0 =>
             /\ Within(track[ret.sub], n, d)
             /\ \A j \in 1..(ret.sub - 1) : ~Within(track[j], n, d)
        /\ (track # <<>> /\ Before(track[1], n, d)) => ret.sub = 0
        /\ (track # <<>> /\ After(track[Len(track)], n, d)) => ret.sub = 0

\* C1 as amended: the subtitle selected is the first in scan order that holds
\* t, bounds included; none is selected exactly when no subtitle holds t, as
\* when t is before every start or after every end.
C1_FirstContaining ==
  pc = "return" =>
    LET n == ret.frame_timedelta_ms.num
        d == ret.frame_timedelta_ms.den
        track == call.subs
    IN  /\ ret.sub \in 0..Len(track)
        /\ ret.sub # 0 =>
             /\ Within(track[ret.sub], n, d)
             /\ \A j \in 1..(ret.sub - 1) : ~Within(track[j], n, d)
        /\ ret.sub = 0 <=> \A j \in DOMAIN track : ~Within(track[j], n, d)
        /\ (\A j \in DOMAIN track : Before(track[j], n, d)) => ret.sub = 0
        /\ (\A j \in DOMAIN track : After(track[j], n, d)) => ret.sub = 0

\* Two subtitles hold t = 1200 ms, which is the end of the first: the first
\* is selected.
C1_Witness ==
  /\ pc = "return"
  /\ call.subs = << [start |-> 400, end |-> 1200, text |-> <<>>],
                    [start |-> 1000, end |-> 1200, text |-> <<>>] >>
  /\ ret.frame_timedelta_ms = [num |-> 300000, den |-> 250]
  /\ ret.sub = 1

\* C8: the frame's time is (frame_number - 1) / extraction_fps seconds: 0 for
\* frame 1, 1000 ms for frame 6 at 5 fps; the video's rate does not enter, so
\* that with any other video rate the time and the subtitle are the same.
C8_TimeFromExtractionRate ==
  pc = "return" =>
    LET t == ret.frame_timedelta_ms
    IN  /\ t.den > 0
        /\ t.num * call.extraction_fps = (call.frame_number - 1) * 100000 * t.den
        /\ call.frame_number = 1 => t.num = 0
        /\ (call.frame_number = 6 /\ call.extraction_fps = 500)
             => t.num = 1000 * t.den
        /\ \A v \in {2997, 500, 6000} :
             LET u == frame_timedelta_ms(call.frame_number, v, call.extraction_fps)
             IN  u = t /\ find_sub(call.subs, u) = ret.sub

\* Frame 6 at 5 fps of a 29.97 fps video is at 1000 ms, in the subtitle that
\* starts there.
C8_Witness ==
  /\ pc = "return"
  /\ call.frame_number = 6 /\ call.extraction_fps = 500 /\ call.video_fps = 2997
  /\ ret.frame_timedelta_ms = [num |-> 500000, den |-> 500]
  /\ call.subs = <<[start |-> 1000, end |-> 1200, text |-> <<>>]>>
  /\ ret.sub = 1

-----------------------------------------------------------------------------
(* Claims about the metadata writer (SpecWrite).                           *)

-----------------------------------------------------------------------------
(* Claims about the run (Spec).                                            *)

\* The images of the run, each <<group, index in the group>>.
Images ==
  UNION {{<<g, i>> : i \in DOMAIN outcome[g]} : g \in DOMAIN outcome}

\* No image has been looked at: no time computed, no subtitle sought, no
\* file written.
Untouched ==
  /\ total_images = 0
  /\ \A x \in Images :
       outcome[x[1]][x[2]] = "pending" /\ disk[x[1]][x[2]] = CameraBlock

Failures == {"no_match", "parse_failed", "write_failed"}

Invalid(input) ==
  input.kind = "text" \/ (input.kind = "number" /\ input.val <= 0)

\* C2: in a run with valid rates, once an image has ended in no match, a
\* parse failure or a write failure the run does not stop there: when it has
\* reached its summary, every image after that one, in its group and in the
\* later groups, has been processed.
C2_FailureNeverAborts ==
  (~Invalid(video_fps_input) /\ ~Invalid(extraction_fps_input)) =>
    /\ (\E x \in Images : outcome[x[1]][x[2]] \in Failures) => pc # "crashed"
    /\ pc = "done" =>
         \A x \in Images : \A y \in Images :
           (/\ outcome[x[1]][x[2]] \in Failures
            /\ (y[1] > x[1] \/ (y[1] = x[1] /\ y[2] > x[2])))
             => outcome[y[1]][y[2]] # "pending"

\* C6 as stated: with a rate that is not a number or not positive, for the
\* video or for the extraction, no image is looked at.
C6_InvalidRateIsFatal ==
  (Invalid(video_fps_input) \/ Invalid(extraction_fps_input)) => Untouched

\* C6 as amended: an entry that is empty or not a number is replaced by its
\* default, a number is taken as typed, negative or not; the run stops at the
\* configuration exactly when the extraction rate is 0, and then no image is
\* looked at and no summary is printed.
C6_OnlyZeroExtractionRateIsFatal ==
  pc # "config" =>
    /\ video_fps = IF video_fps_input.kind = "number"
                   THEN video_fps_input.val ELSE 2997
    /\ extraction_fps = IF extraction_fps_input.kind = "number"
                        THEN extraction_fps_input.val ELSE 500
    /\ pc = "crashed" <=> extraction_fps = 0
    /\ pc = "crashed" => Untouched /\ report = <<>>

\* The video rate is not a number and the extraction rate is 0: the default
\* stands for the first, the second ends the run.
C6_Witness ==
  /\ pc = "crashed"
  /\ video_fps_input = TextInput /\ video_fps = 2997
  /\ extraction_fps_input = Number(0)
  /\ Untouched

RECURSIVE SumOver(_, _)
SumOver(f, n) == IF n = 0 THEN 0 ELSE f[n] + SumOver(f, n - 1)

Tagged(g) == Cardinality({i \in DOMAIN outcome[g] : outcome[g][i] = "tagged"})

\* C10: successes never exceed the total; at the end of the run the total of
\* the summary is the number of images of all matched groups, each group's
\* line has the number of its images that were written, and the successes of
\* the summary are the sum over the groups.
C10_SummaryCounts ==
  /\ total_success <= total_images
  /\ pc = "done" =>
       LET final == report[Len(report)]
           n == Len(matched_groups)
       IN  /\ final.success <= final.total
           /\ final.total =
                SumOver([g \in 1..n |-> Len(matched_groups[g].images)], n)
           /\ final.success = SumOver([g \in 1..n |-> Tagged(g)], n)
           /\ \A r \in 1..(Len(report) - 1) :
                /\ report[r].success = Tagged(report[r].group)
                /\ report[r].total = Len(matched_groups[report[r].group].images)

====
